---- MODULE Spec2Model ----
(***************************************************************************)
(* Model of vault13's layered virtual file system (src/src/fs.rs) and of   *)
(* the path normalizer (src/src/fs/inifile.rs).                            *)
(*                                                                         *)
(* Strings are sequences of one-character strings, so that the             *)
(* character-at-a-time fold of normalize_path and the text of the          *)
(* synthesized NotFound error are computed, not assumed.                   *)
(***************************************************************************)
EXTENDS Integers, Sequences, FiniteSets, TLC

VARIABLES
    providers,   \* FileSystem.providers: Vec<Box<dyn Provider>>
    registered,  \* history: the providers passed to register_provider, in call order
    op,          \* the last FileSystem operation called ("new" right after construction)
    arg,         \* the path the last lookup was called with
    ret,         \* the value the last lookup returned
    calls,       \* the provider invocations the last lookup made, in order
    npath,       \* normalizer: the path string under test
    nop,         \* normalizer: which call was made last
    narg,        \* normalizer: the argument of the last normalize_path call
    nret,        \* normalizer: the result of the last normalize_path call
    disk,        \* the files File::open can open at this moment
    ini,         \* the io::Result of the last new_provider call, until it is registered
    timer,       \* Timer { time, last }
    ticks,       \* history: the instants the timer accepted, Timer::new's first
    targ,        \* the instant last passed to Timer::new or Timer::tick
    tfailed,     \* the assertion of the last Timer::tick failed
    pc,          \* main loop: the step that runs next
    app_events,  \* main loop: the app_events queue
    ui_commands, \* main loop: the ui_commands queue
    draw_debug,  \* main loop: the draw_debug flag
    input,       \* main loop: how the last polled input event was handled
    polled,      \* main loop: the input events polled so far in this iteration
    emitted,     \* history: the app events the last state.update pushed
    app_handled, \* history: the handle_app_event calls of this iteration
    cmd_produced, \* history: the UI commands produced in this iteration
    cmd_handled  \* history: the handle_ui_command calls of this iteration

fsvars == <<providers, registered, op, arg, ret, calls>>
nvars == <<npath, nop, narg, nret>>
ivars == <<disk, ini>>
tvars == <<timer, ticks, targ, tfailed>>
mvars == <<pc, app_events, ui_commands, draw_debug, input, polled, emitted,
           app_handled, cmd_produced, cmd_handled>>
vars == <<providers, registered, op, arg, ret, calls, npath, nop, narg, nret, disk, ini,
          timer, ticks, targ, tfailed, pc, app_events, ui_commands, draw_debug, input,
          polled, emitted, app_handled, cmd_produced, cmd_handled>>

----------------------------------------------------------------------------
(* Bounds *)

\* longest provider list the model registers
MaxProviders == 2
\* longest path string given to normalize_path
MaxLen == 4
\* most adjacent "./" segments embedded in a path
MaxDots == 2
\* latest instant of the clock
MaxInstant == 4
\* most ticks of one timer
MaxTicks == 3
\* most input events polled in one iteration of the main loop
MaxInput == 2
\* most app events one state.update pushes
MaxEmit == 2

----------------------------------------------------------------------------
(* io::Result<T> as the resolver sees it: Ok(value) or Err(kind, message) *)

Ok(v) == [ok |-> TRUE, kind |-> "Ok", val |-> v]
Err(kind, msg) == [ok |-> FALSE, kind |-> kind, val |-> msg]
\* Option<Error>::None, the empty "pending hard error" slot
None == [ok |-> FALSE, kind |-> "None", val |-> <<>>]

\* a panic unwinding through the caller (Result::unwrap on an Err)
Panic == [ok |-> FALSE, kind |-> "Panic", val |-> <<>>]

\* the two paths callers look up; the second is not in normalized form
PathA == <<"A">>
PathB == <<".", "/", "b">>
Paths == {PathA, PathB}

\* what one provider answers to one operation on the path it is asked about
Outcomes == {"Ok", "NotFound", "PermissionDenied", "InvalidData"}

\* A Provider implementation: it holds (at most) one resource, `path`, and
\* answers reader with outcome rd and metadata with outcome md for it; any
\* other path it does not have.
ProviderSet == [path : Paths, rd : Outcomes, md : Outcomes]

DeniedMsg == <<"d", "e", "n", "i", "e", "d">>
CorruptMsg == <<"c", "o", "r", "r", "u", "p", "t">>

\* the io::Result a provider builds for an outcome; v is the value of a success
ProviderResult(outcome, v) ==
    IF outcome = "Ok" THEN Ok(v)
    ELSE IF outcome = "NotFound" THEN Err("NotFound", <<>>)
    ELSE IF outcome = "PermissionDenied" THEN Err(outcome, DeniedMsg)
    ELSE Err(outcome, CorruptMsg)

\* the single-document provider, struct Inifile { path, state }
InifileSet == [path : Paths, state : {"Found", "Missing"}]

\* the provider is an Inifile (dynamic dispatch on Box<dyn Provider>)
IsInifile(provider) == "state" \in DOMAIN provider

\* a variant that reports a file it cannot open as an error
Inifile_new_strict(path, files) ==
    IF path \in files THEN Ok([path |-> path, state |-> "Found"])
    ELSE Err("NotFound", <<>>)

\* Inifile::new(path), with `files` the files File::open can open
Inifile_new(path, files) ==
    IF path \in files THEN Ok([path |-> path, state |-> "Found"])
    ELSE Ok([path |-> path, state |-> "Missing"])

\* new_provider(path): Ok(Box::new(Inifile::new(path)?))
new_provider(path, files) ==
    LET r == Inifile_new(path, files) IN IF r.ok THEN Ok(r.val) ELSE r

\* Inifile::reader: BufReader::new(File::open(path).unwrap())
Inifile_reader(self, path, files) ==
    IF path \in files THEN Ok(<<"stream">>) ELSE Panic

\* Inifile::metadata: Ok(Metadata { len: 1 })
Inifile_metadata(self, path) == Ok(<<"metadata">>)

\* provider.reader(path): a stream, or an error
ProviderReader(provider, path) ==
    IF IsInifile(provider) THEN Inifile_reader(provider, path, disk)
    ELSE IF path = provider.path THEN ProviderResult(provider.rd, <<"stream">>)
    ELSE Err("NotFound", <<>>)

\* provider.metadata(path): a Metadata, or an error
ProviderMetadata(provider, path) ==
    IF IsInifile(provider) THEN Inifile_metadata(provider, path)
    ELSE IF path = provider.path THEN ProviderResult(provider.md, <<"metadata">>)
    ELSE Err("NotFound", <<>>)

\* the closure f of find_provider: |p| p.reader(path) or |p| p.metadata(path)
Apply(f, provider, path) ==
    IF f = "reader" THEN ProviderReader(provider, path)
    ELSE ProviderMetadata(provider, path)

----------------------------------------------------------------------------
(* The path normalizer, src/src/fs/inifile.rs *)

UpperAscii == <<"A", "B", "C", "D", "E", "F", "G", "H", "I", "J", "K", "L", "M",
                "N", "O", "P", "Q", "R", "S", "T", "U", "V", "W", "X", "Y", "Z">>
LowerAscii == <<"a", "b", "c", "d", "e", "f", "g", "h", "i", "j", "k", "l", "m",
                "n", "o", "p", "q", "r", "s", "t", "u", "v", "w", "x", "y", "z">>

\* char::to_ascii_lowercase: 'A'..'Z' to 'a'..'z', every other character unchanged
to_ascii_lowercase(c) ==
    IF \E i \in 1..26 : UpperAscii[i] = c
    THEN LowerAscii[CHOOSE i \in 1..26 : UpperAscii[i] = c]
    ELSE c

\* str::ends_with
EndsWith(s, suffix) ==
    /\ Len(s) >= Len(suffix)
    /\ SubSeq(s, Len(s) - Len(suffix) + 1, Len(s)) = suffix

\* String::remove(idx), idx counted from 0
Remove(s, idx) == SubSeq(s, 1, idx) \o SubSeq(s, idx + 2, Len(s))

\* Option<char>::None, the "no next character" signal of the final pass
NoChar == "None"

DotSep == <<".", "\\">>
SepDotSep == <<"\\", ".", "\\">>

\* a variant that also turns a backslash into a forward slash
Emit_swap(c) ==
    IF c = "/" THEN "\\" ELSE IF c = "\\" THEN "/" ELSE to_ascii_lowercase(c)

\* a variant that substitutes the separator but leaves the case alone
Emit_nolower(c) == IF c = "/" THEN "\\" ELSE c

\* the character build_normalized_path pushes for input character c
Emit(c) == IF c = "/" THEN "\\" ELSE to_ascii_lowercase(c)

\* a variant whose first rule never truncates on ".\" (only the final "." does)
Collapse_notrunc(path, c) ==
    IF c = NoChar /\ path = <<".">> THEN <<>>
    ELSE IF EndsWith(path, SepDotSep)
    THEN Remove(Remove(path, Len(path) - 1), Len(path) - 2)
    ELSE path

\* a variant without the second rule: an embedded "\.\" is left in place
Collapse_keep_embedded(path, c) ==
    IF path = DotSep \/ (c = NoChar /\ path = <<".">>) THEN <<>> ELSE path

\* the two collapse rules, applied to the accumulated output
Collapse(path, c) ==
    IF path = DotSep \/ (c = NoChar /\ path = <<".">>) THEN <<>>
    ELSE IF EndsWith(path, SepDotSep)
    THEN Remove(Remove(path, Len(path) - 1), Len(path) - 2)
    ELSE path

build_normalized_path(path, c) ==
    Collapse(IF c # NoChar THEN Append(path, Emit(c)) ELSE path, c)

RECURSIVE NormalizeFrom(_, _, _)
\* the for loop over path.chars(), then the final call with None
NormalizeFrom(r, path, i) ==
    IF i > Len(path) THEN build_normalized_path(r, NoChar)
    ELSE NormalizeFrom(build_normalized_path(r, path[i]), path, i + 1)

normalize_path(path) == NormalizeFrom(<<>>, path, 1)

----------------------------------------------------------------------------
(* The resolver, src/src/fs.rs *)

\* "file not found: "
NotFoundPrefix == <<"f", "i", "l", "e", " ", "n", "o", "t", " ", "f", "o", "u",
                    "n", "d", ":", " ">>

\* a variant that names the canonical form of the path instead of the path
not_found_error_normalized(path) ==
    Err("NotFound", NotFoundPrefix \o normalize_path(path))

\* Error::new(ErrorKind::NotFound, format!("file not found: {}", path))
not_found_error(path) == Err("NotFound", NotFoundPrefix \o path)

\* a variant that keeps searching after a success
Visit_continue_after_ok(r, error) ==
    IF r.ok THEN [ctl |-> "continue", error |-> error, value |-> r]
    ELSE IF r.kind = "NotFound" THEN [ctl |-> "continue", error |-> error, value |-> None]
    ELSE [ctl |-> "break", error |-> IF error = None THEN r ELSE error, value |-> None]

\* a variant that records a hard failure but keeps searching
Visit_continue_after_error(r, error) ==
    IF r.ok THEN [ctl |-> "return", error |-> error, value |-> r]
    ELSE IF r.kind = "NotFound" THEN [ctl |-> "continue", error |-> error, value |-> None]
    ELSE [ctl |-> "continue", error |-> IF error = None THEN r ELSE error, value |-> None]

\* the body of the for loop: what one provider's result r does to the search
Visit(r, error) ==
    IF r.ok THEN [ctl |-> "return", error |-> error, value |-> r]
    ELSE IF r.kind = "NotFound" THEN [ctl |-> "continue", error |-> error, value |-> None]
    ELSE [ctl |-> "break", error |-> IF error = None THEN r ELSE error, value |-> None]

\* one provider invocation, as the call log records it
Invocation(i, f, path) == [idx |-> i, op |-> f, path |-> path]

RECURSIVE FindFrom(_, _, _, _, _, _)
\* the for loop of find_provider from provider i on, with the pending hard
\* error slot and the invocations made so far; a panic in a provider unwinds
\* through the loop
FindFrom(self, path, f, i, error, log) ==
    IF i > Len(self) THEN [value |-> None, error |-> error, calls |-> log]
    ELSE LET r == Apply(f, self[i], path)
             v == Visit(r, error)
             l == Append(log, Invocation(i, f, path))
         IN  IF r = Panic THEN [value |-> None, error |-> r, calls |-> l]
             ELSE IF v.ctl = "return"
             THEN [value |-> v.value, error |-> v.error, calls |-> l]
             ELSE IF v.ctl = "break" THEN [value |-> None, error |-> v.error, calls |-> l]
             ELSE FindFrom(self, path, f, i + 1, v.error, l)

\* a variant that drops the provider that reported a hard failure
find_provider_drop_failed(self, path, f) ==
    LET s == FindFrom(self, path, f, 1, None, <<>>)
        n == Len(s.calls)
    IN  [self |-> IF s.value = None /\ s.error # None
                  THEN SubSeq(self, 1, n - 1) \o SubSeq(self, n + 1, Len(self))
                  ELSE self,
         ret |-> IF s.value # None THEN s.value
                 ELSE IF s.error # None THEN s.error
                 ELSE not_found_error(path),
         calls |-> s.calls]

\* a variant that hands the providers the canonical form of the path
find_provider_normalized(self, path, f) ==
    LET s == FindFrom(self, normalize_path(path), f, 1, None, <<>>)
    IN  [self |-> self,
         ret |-> IF s.value # None THEN s.value
                 ELSE IF s.error # None THEN s.error
                 ELSE not_found_error(path),
         calls |-> s.calls]

\* FileSystem::find_provider(&self, path, f): the FileSystem after the call
\* (self is borrowed immutably), the value returned and the invocations made
find_provider(self, path, f) ==
    LET s == FindFrom(self, path, f, 1, None, <<>>)
    IN  [self |-> self,
         ret |-> IF s.value # None THEN s.value
                 ELSE IF s.error # None THEN s.error
                 ELSE not_found_error(path),
         calls |-> s.calls]

\* FileSystem::reader
reader(self, path) == find_provider(self, path, "reader")

\* FileSystem::metadata
metadata(self, path) == find_provider(self, path, "metadata")

\* a variant that probes with reader instead of metadata
exists_by_reader(self, path) ==
    LET m == reader(self, path) IN [m EXCEPT !.ret = m.ret.ok]

\* a variant that answers true when the lookup failed
exists_negated(self, path) ==
    LET m == metadata(self, path) IN [m EXCEPT !.ret = ~m.ret.ok]

\* FileSystem::exists: self.metadata(path).is_ok()
exists(self, path) ==
    LET m == metadata(self, path) IN [m EXCEPT !.ret = m.ret.ok]

\* a variant that ignores a provider that is already registered
register_provider_dedup(self, provider) ==
    IF \E i \in 1..Len(self) : self[i] = provider THEN self ELSE Append(self, provider)

\* FileSystem::register_provider: self.providers.push(provider)
register_provider(self, provider) == Append(self, provider)

\* FileSystem::new
new == <<>>

----------------------------------------------------------------------------
(* The file system as a state machine: a FileSystem under construction and  *)
(* in use                                                                   *)

\* a variant that stores the new time before it saves the old one
tick_overwrite(self, time) ==
    IF ~(time >= self.time) THEN [self |-> self, panicked |-> TRUE]
    ELSE [self |-> [time |-> time, last |-> time], panicked |-> FALSE]

\* Timer::new
Timer_new(time) == [time |-> time, last |-> time]

\* Timer::delta
delta(self) == self.time - self.last

\* Timer::tick: the timer after the call, and whether the assertion failed
tick(self, time) ==
    IF ~(time >= self.time) THEN [self |-> self, panicked |-> TRUE]
    ELSE [self |-> [time |-> time, last |-> self.time], panicked |-> FALSE]

TimerIdle ==
    /\ timer = Timer_new(0)
    /\ ticks = <<0>>
    /\ targ = 0
    /\ tfailed = FALSE

\* no input event polled yet in this iteration
NoInput == [event |-> "none", ui |-> "not called", state |-> "not called",
            builtin |-> "not called"]

\* the main loop before its first iteration
MainInit ==
    /\ pc = "app_events"
    /\ app_events = <<>>
    /\ ui_commands = <<>>
    /\ draw_debug = TRUE
    /\ input = NoInput
    /\ polled = 0
    /\ emitted = <<>>
    /\ app_handled = <<>>
    /\ cmd_produced = <<>>
    /\ cmd_handled = <<>>

FsInit ==
    /\ providers = new
    /\ registered = <<>>
    /\ op = "new"
    /\ arg = <<>>
    /\ ret = None
    /\ calls = <<>>

NormIdle ==
    /\ npath = <<>>
    /\ nop = "none"
    /\ narg = <<>>
    /\ nret = <<>>

IniIdle ==
    /\ disk = {}
    /\ ini = None

Init == FsInit /\ NormIdle /\ IniIdle /\ TimerIdle /\ MainInit

RegisterProvider ==
    \E provider \in ProviderSet :
        /\ Len(providers) < MaxProviders
        /\ providers' = register_provider(providers, provider)
        /\ registered' = Append(registered, provider)
        /\ op' = "register_provider"
        /\ arg' = <<>>
        /\ ret' = None
        /\ calls' = <<>>
        /\ UNCHANGED <<nvars, ivars, tvars, mvars>>

Reader ==
    \E path \in Paths :
        LET c == reader(providers, path)
        IN  /\ providers' = c.self
            /\ op' = "reader"
            /\ arg' = path
            /\ ret' = c.ret
            /\ calls' = c.calls
            /\ UNCHANGED <<registered, nvars, ivars, tvars, mvars>>

Metadata ==
    \E path \in Paths :
        LET c == metadata(providers, path)
        IN  /\ providers' = c.self
            /\ op' = "metadata"
            /\ arg' = path
            /\ ret' = c.ret
            /\ calls' = c.calls
            /\ UNCHANGED <<registered, nvars, ivars, tvars, mvars>>

Exists ==
    \E path \in Paths :
        LET c == exists(providers, path)
        IN  /\ providers' = c.self
            /\ op' = "exists"
            /\ arg' = path
            /\ ret' = c.ret
            /\ calls' = c.calls
            /\ UNCHANGED <<registered, nvars, ivars, tvars, mvars>>

Next == RegisterProvider \/ Reader \/ Metadata \/ Exists

Spec == Init /\ [][Next]_vars

----------------------------------------------------------------------------
(* The normalizer under test: normalize_path applied to a path, to the path *)
(* behind a leading "./" or ".\", and to its own output                     *)

\* stands for a character outside ASCII (an uppercase one, U+00C9)
NonAscii == "U+00C9"

Chars == {".", "/", "\\", "a", "A", NonAscii}

PathStrings == UNION {[1..k -> Chars] : k \in 0..MaxLen}

DotSlash == <<".", "/">>

NormInit ==
    /\ FsInit
    /\ IniIdle
    /\ TimerIdle
    /\ MainInit
    /\ npath \in PathStrings
    /\ nop = "none"
    /\ narg = <<>>
    /\ nret = <<>>

Normalize ==
    /\ nop' = "normalize"
    /\ narg' = npath
    /\ nret' = normalize_path(npath)
    /\ UNCHANGED <<npath, fsvars, ivars, tvars, mvars>>

NormalizeDotSlash ==
    /\ nop' = "dotslash"
    /\ narg' = DotSlash \o npath
    /\ nret' = normalize_path(DotSlash \o npath)
    /\ UNCHANGED <<npath, fsvars, ivars, tvars, mvars>>

NormalizeDotBackslash ==
    /\ nop' = "dotbackslash"
    /\ narg' = DotSep \o npath
    /\ nret' = normalize_path(DotSep \o npath)
    /\ UNCHANGED <<npath, fsvars, ivars, tvars, mvars>>

RECURSIVE DotSlashes(_)
\* "./" repeated k times
DotSlashes(k) == IF k = 0 THEN <<>> ELSE DotSlash \o DotSlashes(k - 1)

\* x + "/" + y, where x is the first j characters of p and y the rest
Joined(p, j) == SubSeq(p, 1, j) \o <<"/">> \o SubSeq(p, j + 1, Len(p))

\* x + "/" + ("./" repeated k times) + y
Embedded(p, j, k) ==
    SubSeq(p, 1, j) \o <<"/">> \o DotSlashes(k) \o SubSeq(p, j + 1, Len(p))

\* normalize_path applied, as the first call, to the path with
\* current-directory segments embedded at some position
NormalizeEmbedded ==
    \E j \in 0..Len(npath), k \in 1..MaxDots :
        /\ nop = "none"
        /\ nop' = "embedded"
        /\ narg' = Embedded(npath, j, k)
        /\ nret' = normalize_path(Embedded(npath, j, k))
        /\ UNCHANGED <<npath, fsvars, ivars, tvars, mvars>>

\* normalize_path applied to the output of the previous call
NormalizeAgain ==
    /\ nop # "none"
    /\ nop' = "again"
    /\ narg' = nret
    /\ nret' = normalize_path(nret)
    /\ UNCHANGED <<npath, fsvars, ivars, tvars, mvars>>

NormNext ==
    \/ Normalize
    \/ NormalizeDotSlash
    \/ NormalizeDotBackslash
    \/ NormalizeEmbedded
    \/ NormalizeAgain

SpecNorm == NormInit /\ [][NormNext]_vars

----------------------------------------------------------------------------
(* Properties of the resolver *)

IsLookup == op \in {"reader", "metadata"}

\* what provider i answers to the operation and path of the last lookup
Answer(i) == Apply(op, providers[i], arg)

IsHard(r) == ~r.ok /\ r.kind # "NotFound"

\* the lookup invoked provider i
Invoked(i) == \E k \in 1..Len(calls) : calls[k].idx = i

\* no provider after index i was invoked
NoneInvokedAfter(i) == \A k \in 1..Len(calls) : calls[k].idx <= i

\* sub occurs in s as a contiguous run
Contains(s, sub) ==
    \E k \in 1..(Len(s) - Len(sub) + 1) : SubSeq(s, k, k + Len(sub) - 1) = sub

\* C1: if provider i is the first to return success for p in a reader(p) or
\* metadata(p) lookup, the lookup returns exactly that provider's result and
\* no provider after i is invoked. A provider returns something when the
\* lookup invokes it, and it is invoked when every provider before it answers
\* NotFound.
C1_FirstSuccessWins ==
    IsLookup =>
        \A i \in 1..Len(providers) :
            /\ (Invoked(i) /\ Answer(i).ok)
                   => (ret = Answer(i) /\ NoneInvokedAfter(i))
            /\ (Answer(i).ok /\ \A j \in 1..(i - 1) : Answer(j).kind = "NotFound")
                   => Invoked(i)

\* two providers would both succeed; the first one's result is returned and
\* the second is never invoked
C1_Witness ==
    /\ op = "reader"
    /\ Len(providers) = 2
    /\ Answer(1).ok
    /\ Answer(2).ok
    /\ ret = Answer(1)
    /\ Len(calls) = 1

\* C2: if provider i returns a hard failure (an error of a kind other than
\* NotFound) for p and no earlier provider succeeded, the lookup fails with
\* exactly provider i's error, kind and message, and no provider after i is
\* invoked, even when a later provider would have returned success. Provider
\* i returns its failure when every provider before it answers NotFound.
C2_HardFailureWins ==
    IsLookup =>
        \A i \in 1..Len(providers) :
            /\ (Invoked(i) /\ IsHard(Answer(i)))
                   => (ret = Answer(i) /\ NoneInvokedAfter(i))
            /\ (IsHard(Answer(i)) /\ \A j \in 1..(i - 1) : Answer(j).kind = "NotFound")
                   => Invoked(i)

\* the first provider fails hard, the second would succeed; the lookup fails
\* with the first one's error and the second is never invoked
C2_Witness ==
    /\ op = "reader"
    /\ Len(providers) = 2
    /\ IsHard(Answer(1))
    /\ Answer(2).ok
    /\ ret = Answer(1)
    /\ Len(calls) = 1

\* C3: when every provider returns NotFound for p, reader(p) and metadata(p)
\* fail with kind NotFound, the message contains p as the caller passed it,
\* and every provider has been invoked once, in order.
C3_AllNotFound ==
    (IsLookup /\ \A i \in 1..Len(providers) : Answer(i).kind = "NotFound") =>
        /\ ~ret.ok
        /\ ret.kind = "NotFound"
        /\ Contains(ret.val, arg)
        /\ Len(calls) = Len(providers)
        /\ \A k \in 1..Len(calls) : calls[k] = Invocation(k, op, arg)

\* two providers, neither has "./b": the synthesized error names "./b"
C3_Witness ==
    /\ op = "metadata"
    /\ arg = PathB
    /\ Len(providers) = 2
    /\ \A i \in 1..2 : Answer(i).kind = "NotFound"
    /\ ret = Err("NotFound", NotFoundPrefix \o PathB)
    /\ Len(calls) = 2

\* C4: with no provider registered, exists(p) is false and reader(p) and
\* metadata(p) fail with kind NotFound, for every p.
C4_NoProviders ==
    Len(providers) = 0 =>
        /\ op = "exists" => ret = FALSE
        /\ IsLookup => (~ret.ok /\ ret.kind = "NotFound")

C4_Witness == providers = <<>> /\ op = "exists" /\ ret = FALSE /\ calls = <<>>

\* the metadata lookup for the last path succeeds: some provider's metadata
\* succeeds and every provider before it answers NotFound
MetadataSucceeds ==
    \E i \in 1..Len(providers) :
        /\ ProviderMetadata(providers[i], arg).ok
        /\ \A j \in 1..(i - 1) : ProviderMetadata(providers[j], arg).kind = "NotFound"

\* C5: exists(p) is true exactly when metadata(p) returns success (so it is
\* false when a higher-precedence provider fails hard although a lower one
\* has p), and exists invokes only the providers' metadata operation.
C5_ExistsIsMetadataOk ==
    /\ op = "exists" =>
        /\ ret = MetadataSucceeds
        /\ \A k \in 1..Len(calls) : calls[k].op = "metadata"
    /\ op = "metadata" => (ret.ok = MetadataSucceeds)

\* the first provider's metadata fails hard (its reader would succeed), the
\* second has p: exists(p) is false
C5_Witness ==
    /\ op = "exists"
    /\ Len(providers) = 2
    /\ IsHard(ProviderMetadata(providers[1], arg))
    /\ ProviderReader(providers[1], arg).ok
    /\ ProviderMetadata(providers[2], arg).ok
    /\ ret = FALSE

\* C6: the provider list is the sequence of registered providers in call
\* order (one entry per call, duplicates kept), and lookups query it in that
\* order, starting with the first registered.
C6_RegistrationOrder ==
    /\ providers = registered
    /\ \A k \in 1..Len(calls) : calls[k].idx = k

\* the same provider registered twice gives two entries
C6_Witness ==
    /\ op = "register_provider"
    /\ Len(providers) = 2
    /\ providers[1] = providers[2]

\* C7: reader, metadata and exists leave the provider list unchanged whatever
\* their outcome; only register_provider changes it.
C7_LookupsKeepProviders ==
    [][/\ op' \in {"reader", "metadata", "exists"} => providers' = providers
       /\ providers' # providers => op' = "register_provider"]_vars

\* a lookup that ended in a hard failure, the list as it was registered
C7_Witness ==
    /\ op = "reader"
    /\ IsHard(ret)
    /\ Len(providers) = 2
    /\ providers = registered

----------------------------------------------------------------------------
(* Properties of the normalizer *)

\* C8: normalize_path is idempotent: normalizing the output of normalize_path
\* returns it unchanged.
C8_Idempotent == nop = "again" => nret = narg

\* "./A" gives "a", and "a" normalized again is "a"
C8_Witness ==
    /\ nop = "again"
    /\ npath = <<".", "/", "A">>
    /\ narg = <<"a">>
    /\ nret = <<"a">>

\* p with every '/' replaced by '\'
Backslashed(p) == [i \in 1..Len(p) |-> IF p[i] = "/" THEN "\\" ELSE p[i]]

\* no current-directory segment occurs in p: with '/' replaced by '\', p is
\* not ".", does not begin with ".\" and does not contain "\.\"
NoCurDirSegment(p) ==
    LET q == Backslashed(p)
    IN  /\ q # <<".">>
        /\ ~(Len(q) >= 2 /\ SubSeq(q, 1, 2) = DotSep)
        /\ ~Contains(q, SepDotSep)

ColorPal == <<"C", "o", "l", "o", "r", ".", "P", "A", "L">>
SoundSfxTestWav == <<"s", "o", "u", "n", "d", "/", "s", "f", "x", "/",
                     "t", "e", "s", "t", ".", "w", "a", "v">>

\* C9: for an input without a current-directory segment, normalize_path
\* returns a string of the same length whose i-th character is '\' where the
\* input has '/', and otherwise the ASCII-lowercase of the input's i-th
\* character; "Color.PAL" gives "color.pal" and "sound/sfx/test.wav" gives
\* "sound\sfx\test.wav".
C9_CharacterMap ==
    /\ (nop # "none" /\ NoCurDirSegment(narg)) =>
           /\ Len(nret) = Len(narg)
           /\ \A i \in 1..Len(narg) :
                  nret[i] = IF narg[i] = "/" THEN "\\"
                            ELSE IF \E k \in 1..26 : UpperAscii[k] = narg[i]
                                 THEN LowerAscii[CHOOSE k \in 1..26 : UpperAscii[k] = narg[i]]
                                 ELSE narg[i]
    /\ nop = "normalize" =>
           /\ normalize_path(ColorPal)
                  = <<"c", "o", "l", "o", "r", ".", "p", "a", "l">>
           /\ normalize_path(SoundSfxTestWav)
                  = <<"s", "o", "u", "n", "d", "\\", "s", "f", "x", "\\",
                      "t", "e", "s", "t", ".", "w", "a", "v">>

\* "A/.a" has a dot but no current-directory segment; it gives "a\.a"
C9_Witness ==
    /\ nop = "normalize"
    /\ narg = <<"A", "/", ".", "a">>
    /\ NoCurDirSegment(narg)
    /\ nret = <<"a", "\\", ".", "a">>

\* C10: a leading current-directory prefix vanishes: normalize_path("./" + s)
\* and normalize_path(".\" + s) equal normalize_path(s) for every s; "./foo"
\* gives "foo", and "." and "" give "".
C10_LeadingDotVanishes ==
    /\ nop = "dotslash" => (narg = DotSlash \o npath /\ nret = normalize_path(npath))
    /\ nop = "dotbackslash" => (narg = DotSep \o npath /\ nret = normalize_path(npath))
    /\ nop \in {"dotslash", "dotbackslash"} =>
           /\ normalize_path(<<".", "/", "f", "o", "o">>) = <<"f", "o", "o">>
           /\ normalize_path(<<".">>) = <<>>
           /\ normalize_path(<<>>) = <<>>

\* s = "./A": "././A" gives "a", as "./A" does
C10_Witness ==
    /\ nop = "dotslash"
    /\ npath = <<".", "/", "A">>
    /\ narg = <<".", "/", ".", "/", "A">>
    /\ nret = <<"a">>

\* C11: embedded current-directory segments are removed wherever they occur
\* and however many are adjacent: normalize_path(x + "/" + "./"*k + y) equals
\* normalize_path(x + "/" + y) for all x, y and k >= 1; "a/./b" and "a/././b"
\* give "a\b".
C11_EmbeddedDotsVanish ==
    /\ nop = "embedded" =>
           \A j \in 0..Len(npath), k \in 1..MaxDots :
               narg = Embedded(npath, j, k) => nret = normalize_path(Joined(npath, j))
    /\ nop = "embedded" =>
           /\ normalize_path(<<"a", "/", ".", "/", "b">>) = <<"a", "\\", "b">>
           /\ normalize_path(<<"a", "/", ".", "/", ".", "/", "b">>) = <<"a", "\\", "b">>

\* x = "A", y = "a", k = 2: "A/././a" gives "a\a"
C11_Witness ==
    /\ nop = "embedded"
    /\ npath = <<"A", "a">>
    /\ narg = <<"A", "/", ".", "/", ".", "/", "a">>
    /\ nret = <<"a", "\\", "a">>

\* some segment of s (a maximal run of characters between separators or the
\* ends of the string) is exactly "."
HasDotSegment(s) ==
    \E i \in 1..Len(s) :
        /\ s[i] = "."
        /\ (i = 1 \/ s[i - 1] = "\\")
        /\ (i = Len(s) \/ s[i + 1] = "\\")

\* C12: the canonical form returned by normalize_path has backslash
\* separators only, no uppercase ASCII letter, and no segment that is
\* exactly ".".
C12_CanonicalForm ==
    nop # "none" =>
        /\ \A i \in 1..Len(nret) : nret[i] # "/"
        /\ \A i \in 1..Len(nret) : \A k \in 1..26 : nret[i] # UpperAscii[k]
        /\ ~HasDotSegment(nret)

----------------------------------------------------------------------------
(* A FileSystem of single-document providers over a disk whose files come   *)
(* and go                                                                   *)

IniInit ==
    /\ FsInit
    /\ NormIdle
    /\ disk \in SUBSET Paths
    /\ ini = None
    /\ TimerIdle
    /\ MainInit

\* a provider panicked during the last lookup: the panic unwinds out of the
\* FileSystem call and nothing after it runs
Panicked == op \in {"reader", "metadata"} /\ ret = Panic

\* new_provider(path)
IniNewProvider ==
    \E path \in Paths :
        /\ ~Panicked
        /\ ini' = new_provider(path, disk)
        /\ op' = "new_provider"
        /\ arg' = path
        /\ ret' = None
        /\ calls' = <<>>
        /\ UNCHANGED <<providers, registered, disk, nvars, tvars, mvars>>

\* register_provider(provider) with the provider new_provider returned
IniRegister ==
    /\ ~Panicked
    /\ ini # None
    /\ ini.ok
    /\ Len(providers) < MaxProviders
    /\ providers' = register_provider(providers, ini.val)
    /\ registered' = Append(registered, ini.val)
    /\ ini' = None
    /\ op' = "register_provider"
    /\ arg' = <<>>
    /\ ret' = None
    /\ calls' = <<>>
    /\ UNCHANGED <<disk, nvars, tvars, mvars>>

IniReader == ~Panicked /\ Reader

IniMetadata == ~Panicked /\ Metadata

IniExists == ~Panicked /\ Exists

\* the environment creates or removes a file
DiskChange ==
    \E path \in Paths :
        /\ ~Panicked
        /\ disk' = IF path \in disk THEN disk \ {path} ELSE disk \cup {path}
        /\ op' = "disk_change"
        /\ arg' = path
        /\ ret' = None
        /\ calls' = <<>>
        /\ UNCHANGED <<providers, registered, ini, nvars, tvars, mvars>>

IniNext ==
    \/ IniNewProvider
    \/ IniRegister
    \/ IniReader
    \/ IniMetadata
    \/ IniExists
    \/ DiskChange

SpecIni == IniInit /\ [][IniNext]_vars

\* C13: a provider's reader(path) fails with an error of kind NotFound when
\* the provider does not have the path; the single-document provider's
\* reader on a path that cannot be opened returns Err(NotFound) to the
\* resolver instead of aborting, so the lookup ends in NotFound.
C13_ReaderNotFound ==
    /\ \A i \in 1..Len(providers) : \A path \in Paths \ disk :
           LET r == ProviderReader(providers[i], path)
           IN  ~r.ok /\ r.kind = "NotFound"
    /\ (op = "reader" /\ arg \notin disk) => (~ret.ok /\ ret.kind = "NotFound")

\* C14: a provider's metadata(path) fails with NotFound for a path the
\* provider does not have; the single-document provider's metadata succeeds
\* only for a path it can serve, and a FileSystem containing it does not
\* report exists(p) = true for a path no provider has.
C14_MetadataNotFound ==
    /\ \A i \in 1..Len(providers) : \A path \in Paths \ disk :
           LET r == ProviderMetadata(providers[i], path)
           IN  ~r.ok /\ r.kind = "NotFound"
    /\ (op = "metadata" /\ arg \notin disk) => (~ret.ok /\ ret.kind = "NotFound")
    /\ (op = "exists" /\ arg \notin disk) => ret = FALSE

\* C15: constructing the single-document provider never returns an error:
\* the provider is Missing when the file cannot be opened and Found when it
\* can, and its path is the constructor's argument in both cases.
C15_ConstructionNeverFails ==
    op = "new_provider" =>
        /\ ini.ok
        /\ ini.val.path = arg
        /\ arg \in disk => ini.val.state = "Found"
        /\ arg \notin disk => ini.val.state = "Missing"

\* a provider constructed for a file that cannot be opened
C15_Witness ==
    /\ op = "new_provider"
    /\ arg \notin disk
    /\ ini = Ok([path |-> arg, state |-> "Missing"])

\* C16: in one reader / metadata / exists lookup over N providers the
\* invocations form a prefix of the list in registration order, each provider
\* at most once, each with the caller's own path string; there are at most N
\* of them, and provider j is invoked only if every provider before it
\* returned NotFound.
C16_InvocationsArePrefix ==
    op \in {"reader", "metadata", "exists"} =>
        LET f == IF op = "exists" THEN "metadata" ELSE op
        IN  /\ Len(calls) <= Len(providers)
            /\ \A k \in 1..Len(calls) :
                   /\ calls[k] = Invocation(k, f, arg)
                   /\ \A j \in 1..(k - 1) : Apply(f, providers[j], arg).kind = "NotFound"

\* the first provider does not have "./b", the second fails hard: both are
\* invoked, once each, with "./b"
C16_Witness ==
    /\ op = "reader"
    /\ arg = PathB
    /\ Len(providers) = 2
    /\ Apply("reader", providers[1], arg).kind = "NotFound"
    /\ IsHard(Apply("reader", providers[2], arg))
    /\ calls = <<Invocation(1, "reader", PathB), Invocation(2, "reader", PathB)>>

----------------------------------------------------------------------------
(* The Timer of src/src/main.rs, ticked with arbitrary instants *)

TimerInit ==
    /\ FsInit
    /\ NormIdle
    /\ IniIdle
    /\ MainInit
    /\ \E t \in 0..MaxInstant :
           /\ timer = Timer_new(t)
           /\ ticks = <<t>>
           /\ targ = t
    /\ tfailed = FALSE

\* timer.tick(t); a failed assertion panics, and nothing runs after it
Tick ==
    \E t \in 0..MaxInstant :
        LET r == tick(timer, t)
        IN  /\ ~tfailed
            /\ Len(ticks) <= MaxTicks
            /\ timer' = r.self
            /\ tfailed' = r.panicked
            /\ targ' = t
            /\ ticks' = IF r.panicked THEN ticks ELSE Append(ticks, t)
            /\ UNCHANGED <<fsvars, nvars, ivars, mvars>>

TimerNext == Tick

SpecTimer == TimerInit /\ [][TimerNext]_vars

\* the instant accepted before the last one (the first one while there is
\* only one)
PreviousTick == IF Len(ticks) = 1 THEN ticks[1] ELSE ticks[Len(ticks) - 1]

\* C17: last <= time in every reachable state; after Timer::new(t) both are
\* t; tick(t') with t' >= time sets last to the old time and time to t', so
\* delta() is never negative and is the gap between the two most recent
\* ticks; tick(t') with t' < time fails the assertion and leaves the timer as
\* it was.
C17_TimerMonotonic ==
    /\ [](/\ timer.last <= timer.time
          /\ delta(timer) >= 0
          /\ timer.time = ticks[Len(ticks)]
          /\ timer.last = PreviousTick
          /\ delta(timer) = ticks[Len(ticks)] - PreviousTick
          /\ (Len(ticks) = 1 /\ ~tfailed) => (timer.time = targ /\ timer.last = targ))
    /\ [][/\ targ' >= timer.time
              => (~tfailed' /\ timer'.last = timer.time /\ timer'.time = targ')
          /\ targ' < timer.time => (tfailed' /\ timer' = timer)]_vars

\* two ticks, 1 then 3, on a timer made at 0: delta is 2
C17_Witness ==
    /\ ticks = <<0, 1, 3>>
    /\ timer = [time |-> 3, last |-> 1]
    /\ delta(timer) = 2
    /\ ~tfailed

----------------------------------------------------------------------------
(* The main loop of src/src/main.rs: app events, input, update *)

\* the input events told apart by the loop: KeyDown Backquote, KeyDown
\* Escape, Quit, and any other event
Events == {"Backquote", "Escape", "Quit", "MouseMotion"}

UiCommandSet == {"cmd1", "cmd2"}
AppEventSet == {"ev1", "ev2"}

\* what ui.handle_input or ui.update may push to ui_commands in one call
UiPushes == {<<>>} \cup {<<c>> : c \in UiCommandSet}

\* what state.update may push to app_events in one call
AppPushes == UNION {[1..k -> AppEventSet] : k \in 0..MaxEmit}

\* a variant that runs the built-in key handling for every event
handle_event_always_builtin(event, ui_handled, state_handled) ==
    [event |-> event,
     ui |-> IF ui_handled THEN "handled" ELSE "unhandled",
     state |-> IF ui_handled THEN "not called"
               ELSE IF state_handled THEN "handled" ELSE "unhandled",
     builtin |-> IF event = "Backquote" THEN "toggle"
                 ELSE IF event \in {"Quit", "Escape"} THEN "quit"
                 ELSE "ignored"]

\* the body of the poll loop for one event: ui.handle_input, then
\* state.handle_input if the UI did not handle it, then the match on the
\* event if neither did
handle_event(event, ui_handled, state_handled) ==
    [event |-> event,
     ui |-> IF ui_handled THEN "handled" ELSE "unhandled",
     state |-> IF ui_handled THEN "not called"
               ELSE IF state_handled THEN "handled" ELSE "unhandled",
     builtin |-> IF ui_handled \/ state_handled THEN "not called"
                 ELSE IF event = "Backquote" THEN "toggle"
                 ELSE IF event \in {"Quit", "Escape"} THEN "quit"
                 ELSE "ignored"]

\* a variant that iterates over the queue without emptying it
Drain_keep(queue) == [items |-> queue, rest |-> queue]

\* Vec::drain(..): the items handed out, in order, and the queue left behind
Drain(queue) == [items |-> queue, rest |-> <<>>]

\* for event in app_events.drain(..) { state.handle_app_event(..) }
HandleAppEvents ==
    LET d == Drain(app_events)
    IN  /\ pc = "app_events"
        /\ app_handled' = app_handled \o
               [i \in 1..Len(d.items) |-> [event |-> d.items[i], polled |-> polled]]
        /\ app_events' = d.rest
        /\ pc' = "input"
        /\ UNCHANGED <<ui_commands, draw_debug, input, polled, emitted,
                       cmd_produced, cmd_handled, fsvars, nvars, ivars, tvars>>

\* one event of event_pump.poll_iter()
InputEvent ==
    \E event \in Events, ui_handled \in BOOLEAN, state_handled \in BOOLEAN,
       out \in UiPushes :
        LET h == handle_event(event, ui_handled, state_handled)
        IN  /\ pc = "input"
            /\ polled < MaxInput
            /\ polled' = polled + 1
            /\ ui_commands' = ui_commands \o out
            /\ cmd_produced' = cmd_produced \o out
            /\ input' = h
            /\ draw_debug' = IF h.builtin = "toggle" THEN ~draw_debug ELSE draw_debug
            /\ pc' = IF h.builtin = "quit" THEN "exited" ELSE "input"
            /\ UNCHANGED <<app_events, emitted, app_handled, cmd_handled,
                           fsvars, nvars, ivars, tvars>>

\* poll_iter() has no more events
InputDone ==
    /\ pc = "input"
    /\ pc' = "ui_update"
    /\ UNCHANGED <<app_events, ui_commands, draw_debug, input, polled, emitted,
                   app_handled, cmd_produced, cmd_handled, fsvars, nvars, ivars, tvars>>

\* ui.update(timer.time(), ui_commands)
UiUpdate ==
    \E out \in UiPushes :
        /\ pc = "ui_update"
        /\ ui_commands' = ui_commands \o out
        /\ cmd_produced' = cmd_produced \o out
        /\ pc' = "ui_commands"
        /\ UNCHANGED <<app_events, draw_debug, input, polled, emitted, app_handled,
                       cmd_handled, fsvars, nvars, ivars, tvars>>

\* for event in ui_commands.drain(..) { state.handle_ui_command(..) }
HandleUiCommands ==
    LET d == Drain(ui_commands)
    IN  /\ pc = "ui_commands"
        /\ cmd_handled' = cmd_handled \o d.items
        /\ ui_commands' = d.rest
        /\ pc' = "state_update"
        /\ UNCHANGED <<app_events, draw_debug, input, polled, emitted, app_handled,
                       cmd_produced, fsvars, nvars, ivars, tvars>>

\* state.update(Update { .., out: app_events })
StateUpdate ==
    \E out \in AppPushes :
        /\ pc = "state_update"
        /\ app_events' = app_events \o out
        /\ emitted' = out
        /\ pc' = "render"
        /\ UNCHANGED <<ui_commands, draw_debug, input, polled, app_handled,
                       cmd_produced, cmd_handled, fsvars, nvars, ivars, tvars>>

\* ui.sync() to timer.tick(): the rest of the iteration; the next one starts
Render ==
    /\ pc = "render"
    /\ pc' = "app_events"
    /\ input' = NoInput
    /\ polled' = 0
    /\ app_handled' = <<>>
    /\ cmd_produced' = <<>>
    /\ cmd_handled' = <<>>
    /\ UNCHANGED <<app_events, ui_commands, draw_debug, emitted,
                   fsvars, nvars, ivars, tvars>>

MainNext ==
    \/ HandleAppEvents
    \/ InputEvent
    \/ InputDone
    \/ UiUpdate
    \/ HandleUiCommands
    \/ StateUpdate
    \/ Render

SpecMain == Init /\ [][MainNext]_vars

\* C18: each polled input event is offered to ui.handle_input first, to
\* state.handle_input only if the UI did not handle it, and to the built-in
\* key handling (Backquote toggles draw_debug, Quit or Escape leaves the
\* loop) only if neither handled it; an Escape or Quit handled by the UI or
\* the game state never ends the loop.
C18_InputPriority ==
    /\ [](input # NoInput =>
             /\ input.ui \in {"handled", "unhandled"}
             /\ input.state = "not called" <=> input.ui = "handled"
             /\ input.builtin = "not called"
                    <=> (input.ui = "handled" \/ input.state = "handled")
             /\ input.builtin = "toggle"
                    <=> (input.ui = "unhandled" /\ input.state = "unhandled"
                         /\ input.event = "Backquote")
             /\ input.builtin = "quit"
                    <=> (input.ui = "unhandled" /\ input.state = "unhandled"
                         /\ input.event \in {"Quit", "Escape"}))
    /\ [](pc = "exited" <=> input.builtin = "quit")
    /\ [][draw_debug' # draw_debug
              <=> (polled' = polled + 1 /\ input'.builtin = "toggle")]_vars

\* an Escape the UI handled: the game state is not asked and the loop goes on
C18_Witness ==
    /\ input.event = "Escape"
    /\ input.ui = "handled"
    /\ input.state = "not called"
    /\ pc = "ui_update"

\* C19: the app events state.update pushed in one iteration are passed to
\* handle_app_event exactly once, in emission order, at the start of the next
\* iteration before any input event of it; the UI commands produced in an
\* iteration that reaches ui.update are passed to handle_ui_command in that
\* iteration before state.update; both queues are empty when state.update is
\* called.
C19_QueuesDrainedInOrder ==
    /\ pc \in {"app_events", "render"} => app_events = emitted
    /\ pc \in {"input", "ui_update", "ui_commands", "state_update", "exited"} =>
           /\ app_events = <<>>
           /\ Len(app_handled) = Len(emitted)
           /\ \A i \in 1..Len(app_handled) :
                  app_handled[i] = [event |-> emitted[i], polled |-> 0]
    /\ pc \in {"state_update", "render"} =>
           /\ ui_commands = <<>>
           /\ cmd_handled = cmd_produced
    /\ pc = "state_update" => (app_events = <<>> /\ ui_commands = <<>>)

\* the second iteration about to call state.update: "ev2", "ev1" of the first
\* one were handled in that order, and two UI commands of this one
C19_Witness ==
    /\ pc = "state_update"
    /\ emitted = <<"ev2", "ev1">>
    /\ app_handled = <<[event |-> "ev2", polled |-> 0], [event |-> "ev1", polled |-> 0]>>
    /\ cmd_produced = <<"cmd2", "cmd1">>
    /\ cmd_handled = <<"cmd2", "cmd1">>
    /\ app_events = <<>>
    /\ ui_commands = <<>>

====
